---- MODULE Spec2Model ----
(***************************************************************************)
(* Phaser v3 StateManager (src/v3/src/state/StateManager.js).              *)
(*                                                                         *)
(* The manager keeps a key map (keys), the insertion-ordered list of all   *)
(* registered states (states), the list of active records (active) and the *)
(* boot deferral queue (_pending).  One action per public method; every    *)
(* action runs the whole method, nested calls included.                    *)
(*                                                                         *)
(* JavaScript values are modelled with their type visible, so that a       *)
(* strict comparison (===, Array.indexOf) between values of different      *)
(* types is false, as it is in the source:                                 *)
(*   a State object        [ref |-> id]      id = position in states       *)
(*   a string              [str |-> s]                                     *)
(*   undefined             [undefined |-> TRUE]                            *)
(*   an active record      [index |-> i, state |-> [ref |-> id]]           *)
(***************************************************************************)
EXTENDS Integers, Sequences, FiniteSets, TLC

\* Bounds of the model.
MaxStates == 3
MaxPending == 2
MaxConfig == 2
MaxActive == 3

\* Key arguments handed to add; "" stands for a falsy key (undefined or the
\* empty string).  AllKeys: the keys start and pause are called with.
KeyArgs == {"", "a"}
AllKeys == {"", "a", "b", "default"}

Undefined == [undefined |-> TRUE]
StateRef(id) == [ref |-> id]
Str(s) == [str |-> s]

(***************************************************************************)
(* The sources a caller can register.                                      *)
(*   shape    "instance": a State instance; key is its settings.key        *)
(*            "object":   a configuration record; hasKey says whether it   *)
(*                        has an own 'key' property, key is that property  *)
(*            "function": a factory function producing a bare object       *)
(*   preload  "absent": no preload hook; "empty": a preload hook that      *)
(*            enqueues nothing; "queues": a preload hook that enqueues at  *)
(*            least one loadable                                           *)
(*   active   the settings.active flag the source asks for                 *)
(***************************************************************************)
Sources ==
    {[shape |-> "instance", hasKey |-> TRUE, key |-> "a", preload |-> "absent", active |-> FALSE],
     [shape |-> "object", hasKey |-> FALSE, key |-> "", preload |-> "absent", active |-> FALSE],
     [shape |-> "object", hasKey |-> TRUE, key |-> "b", preload |-> "queues", active |-> FALSE],
     [shape |-> "object", hasKey |-> FALSE, key |-> "", preload |-> "absent", active |-> TRUE],
     [shape |-> "function", hasKey |-> FALSE, key |-> "", preload |-> "empty", active |-> FALSE],
     [shape |-> "function", hasKey |-> FALSE, key |-> "", preload |-> "queues", active |-> FALSE]}

VARIABLES
    isBooted,   \* game.isBooted
    keys,       \* this.keys: key string -> State object
    states,     \* this.states: the registered states, in insertion order
    active,     \* this.active: the active records
    pending,    \* this._pending
    calls,      \* hooks and driver calls made by the last operation, in order
    error,      \* the exception the last operation threw, or "none"
    op          \* the last operation and its key argument

vars == <<isBooted, keys, states, active, pending, calls, error, op>>

\* The part of the manager the nested calls work on.
World == [keys |-> keys, states |-> states, active |-> active,
          calls |-> <<>>, error |-> "none"]

Call(w, hook, id) == [w EXCEPT !.calls = Append(@, [hook |-> hook, state |-> id])]

\* Array.prototype.indexOf: the first position (from 0) strictly equal to x.
indexOf(seq, x) ==
    IF \E i \in 1..Len(seq) : seq[i] = x
    THEN (CHOOSE i \in 1..Len(seq) : seq[i] = x /\ \A j \in 1..(i - 1) : seq[j] # x) - 1
    ELSE -1

\* Array.prototype.splice(start, 1).
splice1(seq, start) ==
    IF start < Len(seq)
    THEN SubSeq(seq, 1, start) \o SubSeq(seq, start + 2, Len(seq))
    ELSE seq

\* Faulty variant of sortStates: the comparator the comment "Sort descending" describes.
sortStatesDescending(stateA, stateB) ==
    IF stateA.index > stateB.index THEN -1
    ELSE IF stateA.index < stateB.index THEN 1
    ELSE 0

sortStates(stateA, stateB) ==
    IF stateA.index < stateB.index THEN -1
    ELSE IF stateA.index > stateB.index THEN 1
    ELSE 0

\* Array.prototype.sort with the comparator sortStates.
RECURSIVE sortInsert(_, _)
sortInsert(sorted, x) ==
    IF sorted = <<>> THEN <<x>>
    ELSE IF sortStates(Head(sorted), x) <= 0
         THEN <<Head(sorted)>> \o sortInsert(Tail(sorted), x)
         ELSE <<x>> \o sorted

RECURSIVE sort(_)
sort(seq) ==
    IF seq = <<>> THEN <<>>
    ELSE sortInsert(sort(SubSeq(seq, 1, Len(seq) - 1)), seq[Len(seq)])

\* The resolved key of getKey, before the duplicate check.
resolveKey(key, stateConfig) ==
    LET k == IF key = "" THEN "default" ELSE key
    IN  IF stateConfig.shape = "instance" THEN stateConfig.key
        ELSE IF stateConfig.shape = "object" /\ stateConfig.hasKey THEN stateConfig.key
        ELSE k

\* getKey throws when the resolved key is in the key map.
getKeyThrows(w, key, stateConfig) == resolveKey(key, stateConfig) \in DOMAIN w.keys

getState(w, key) == IF key \in DOMAIN w.keys THEN w.keys[key] ELSE Undefined

getStateIndex(w, state) ==
    IF state # Undefined /\ state.ref \in 1..Len(w.states) THEN state.ref - 1 ELSE -1

getActiveStateIndex(w, state) ==
    IF \E i \in 1..Len(w.active) : w.active[i].state = state
    THEN w.active[CHOOSE i \in 1..Len(w.active) :
                    /\ w.active[i].state = state
                    /\ \A j \in 1..(i - 1) : w.active[j].state # state].index
    ELSE -1

isActive(w, key) ==
    LET state == getState(w, key)
    IN  /\ state # Undefined
        /\ w.states[state.ref].active
        /\ indexOf(w.active, state) # -1

\* setupCallbacks: a missing hook becomes NOOP.
setupCallbacks(preload) == IF preload = "absent" THEN "empty" ELSE preload

\* The State object each create* method returns.
createState(key, stateConfig) ==
    [key     |-> key,
     active  |-> stateConfig.active,
     preload |-> IF stateConfig.shape = "instance" THEN stateConfig.preload
                 ELSE setupCallbacks(stateConfig.preload),
     running |-> FALSE,
     subs    |-> 0]

\* Faulty variant of startCreate: the record is pushed with the position in
\* the active list instead of the registration index.
startCreateActiveIndex(w, state) ==
    LET w1 == Call(w, "create", state.ref)
    IN  [w1 EXCEPT !.active = sort(Append(@, [index |-> Len(w.active), state |-> state])),
                   !.states[state.ref].running = TRUE]

startCreate(w, state) ==
    LET i == getStateIndex(w, state)
        w1 == Call(w, "create", state.ref)
    IN  [w1 EXCEPT !.active = sort(Append(@, [index |-> i, state |-> state])),
                   !.states[state.ref].running = TRUE]

\* Faulty variant of start: the loader is started whatever the size of its list.
startAlwaysLoads(w, key) ==
    LET state == getState(w, key)
    IN  IF state = Undefined THEN w
        ELSE IF isActive(w, key) THEN w
        ELSE LET id == state.ref
                 w1 == [w EXCEPT !.states[id].active = TRUE]
                 w2 == Call(w1, "init", id)
             IN  IF w2.states[id].preload # "absent"
                 THEN LET w3 == Call(w2, "preload", id)
                      IN  [w3 EXCEPT !.states[id].subs = @ + 1]
                 ELSE startCreate(w2, state)

\* Faulty variant of start: the create phase runs without waiting for the loader.
startNeverWaits(w, key) ==
    LET state == getState(w, key)
    IN  IF state = Undefined THEN w
        ELSE IF isActive(w, key) THEN w
        ELSE LET id == state.ref
                 w1 == [w EXCEPT !.states[id].active = TRUE]
                 w2 == Call(w1, "init", id)
             IN  IF w2.states[id].preload # "absent"
                 THEN startCreate(Call(w2, "preload", id), state)
                 ELSE startCreate(w2, state)

\* Faulty variant of start: the state is used without the test of line 337.
startUnchecked(w, key) ==
    LET state == getState(w, key)
    IN  IF state = Undefined THEN [w EXCEPT !.error = "TypeError"]
        ELSE IF isActive(w, key) THEN w
        ELSE LET id == state.ref
                 w1 == [w EXCEPT !.states[id].active = TRUE]
                 w2 == Call(w1, "init", id)
             IN  IF w2.states[id].preload # "absent"
                 THEN LET w3 == Call(w2, "preload", id)
                      IN  IF w3.states[id].preload = "empty"
                          THEN startCreate(w3, state)
                          ELSE [w3 EXCEPT !.states[id].subs = @ + 1]
                 ELSE startCreate(w2, state)

\* Faulty variant of start: the active flag is not set.
startLeavesFlag(w, key) ==
    LET state == getState(w, key)
    IN  IF state = Undefined THEN w
        ELSE IF isActive(w, key) THEN w
        ELSE LET id == state.ref
                 w2 == Call(w, "init", id)
             IN  IF w2.states[id].preload # "absent"
                 THEN LET w3 == Call(w2, "preload", id)
                      IN  IF w3.states[id].preload = "empty"
                          THEN startCreate(w3, state)
                          ELSE [w3 EXCEPT !.states[id].subs = @ + 1]
                 ELSE startCreate(w2, state)

\* start, once booted (lines 335-379).
start(w, key) ==
    LET state == getState(w, key)
    IN  IF state = Undefined THEN w
        ELSE IF isActive(w, key) THEN w
        ELSE LET id == state.ref
                 w1 == [w EXCEPT !.states[id].active = TRUE]
                 w2 == Call(w1, "init", id)
             IN  IF w2.states[id].preload # "absent"
                 THEN LET w3 == Call(w2, "preload", id)
                      IN  IF w3.states[id].preload = "empty"
                          THEN startCreate(w3, state)
                          ELSE [w3 EXCEPT !.states[id].subs = @ + 1]
                 ELSE startCreate(w2, state)

\* Faulty variant of add: only the autoStart argument starts the state.
addIgnoresActiveFlag(w, key, stateConfig, autoStart) ==
    IF getKeyThrows(w, key, stateConfig)
    THEN [w EXCEPT !.error = "DuplicateKey"]
    ELSE LET k == resolveKey(key, stateConfig)
             newState == createState(k, stateConfig)
             id == Len(w.states) + 1
             w1 == [w EXCEPT !.keys = [x \in DOMAIN w.keys \cup {k} |->
                                          IF x = k THEN StateRef(id) ELSE w.keys[x]],
                             !.states = Append(@, newState)]
         IN  IF autoStart THEN start(w1, k) ELSE w1

\* Faulty variant of add: the duplicate is detected after the state list was extended.
addChecksLate(w, key, stateConfig, autoStart) ==
    LET k == resolveKey(key, stateConfig)
        newState == createState(k, stateConfig)
        id == Len(w.states) + 1
        w0 == [w EXCEPT !.states = Append(@, newState)]
        w1 == [w0 EXCEPT !.keys = [x \in DOMAIN w.keys \cup {k} |->
                                      IF x = k THEN StateRef(id) ELSE w.keys[x]]]
    IN  IF getKeyThrows(w, key, stateConfig)
        THEN [w0 EXCEPT !.error = "DuplicateKey"]
        ELSE IF autoStart \/ newState.active THEN start(w1, k) ELSE w1

\* add, once booted (lines 143-183).  The branch that pushes the key on
\* this._start (line 179) needs isBooted false and is not reached from here.
add(w, key, stateConfig, autoStart) ==
    IF getKeyThrows(w, key, stateConfig)
    THEN [w EXCEPT !.error = "DuplicateKey"]
    ELSE LET k == resolveKey(key, stateConfig)
             newState == createState(k, stateConfig)
             id == Len(w.states) + 1
             w1 == [w EXCEPT !.keys = [x \in DOMAIN w.keys \cup {k} |->
                                          IF x = k THEN StateRef(id) ELSE w.keys[x]],
                             !.states = Append(@, newState)]
         IN  IF autoStart \/ newState.active THEN start(w1, k) ELSE w1

\* The loop of boot: add is called for each entry; an exception ends it.
RECURSIVE replay(_, _, _)
replay(w, queue, i) ==
    IF i > Len(queue) THEN w
    ELSE LET e == queue[i]
             w1 == add(w, e.key, e.state, e.autoStart)
         IN  IF w1.error # "none" THEN w1 ELSE replay(w1, queue, i + 1)

\* The once-listeners of a loader's completion event, each bound to loadComplete.
RECURSIVE loadCompleteAll(_, _, _)
loadCompleteAll(w, state, n) ==
    IF n = 0 THEN w ELSE loadCompleteAll(startCreate(w, state), state, n - 1)

RECURSIVE SumSubs(_)
SumSubs(sts) == IF sts = <<>> THEN 0 ELSE Head(sts).subs + SumSubs(Tail(sts))

\* Records in the active list plus continuations that will add one.
Load == Len(active) + SumSubs(states)

Commit(w) ==
    /\ keys' = w.keys
    /\ states' = w.states
    /\ active' = w.active
    /\ calls' = w.calls
    /\ error' = w.error

\* boot threw, or never returned: the game does not start and the manager
\* receives no further call.
BootThrew == op.name = "boot" /\ error # "none"

\* The queue the constructor builds from its stateConfig argument.
constructorPending(stateConfig) ==
    [i \in 1..Len(stateConfig) |->
        [index |-> i - 1, key |-> "default", state |-> stateConfig[i], autoStart |-> (i = 1)]]

ConfigLists == UNION {[1..n -> Sources] : n \in 0..MaxConfig}

Init ==
    /\ isBooted = FALSE
    /\ keys = << >>
    /\ states = << >>
    /\ active = << >>
    /\ \E stateConfig \in ConfigLists : pending = constructorPending(stateConfig)
    /\ calls = << >>
    /\ error = "none"
    /\ op = [name |-> "new", key |-> ""]

\* Game.boot sets isBooted and then calls StateManager.boot.
Boot ==
    /\ ~isBooted /\ ~BootThrew
    /\ isBooted' = TRUE
    /\ LET w == replay(World, pending, 1)
       IN  /\ Commit(w)
           /\ pending' = IF w.error = "none" THEN << >> ELSE pending
    /\ op' = [name |-> "boot", key |-> ""]

\* boot called while game.isBooted is still false: each add of the loop
\* (line 82) takes the holding branch (lines 129-141) and pushes a new entry
\* on _pending, so i < this._pending.length stays true and the loop never
\* ends; with an empty queue the loop body never runs.
BootNotBooted ==
    /\ ~isBooted /\ ~BootThrew
    /\ Commit([World EXCEPT !.error = IF pending = << >> THEN "none" ELSE "NeverReturns"])
    /\ op' = [name |-> "boot", key |-> ""]
    /\ UNCHANGED <<isBooted, pending>>

\* Faulty variant of AddPending: the duplicate check of getKey runs on the
\* queue and a duplicate is not queued.
AddPendingChecksKey(key, stateConfig, autoStart) ==
    /\ ~isBooted /\ ~BootThrew
    /\ Len(pending) < MaxPending
    /\ LET dup == \E i \in 1..Len(pending) :
                     resolveKey(pending[i].key, pending[i].state) = resolveKey(key, stateConfig)
       IN  /\ pending' = IF dup THEN pending
                         ELSE Append(pending, [index |-> Len(pending), key |-> key,
                                               state |-> stateConfig, autoStart |-> autoStart])
           /\ Commit([World EXCEPT !.error = IF dup THEN "DuplicateKey" ELSE "none"])
    /\ op' = [name |-> "add", key |-> key]
    /\ UNCHANGED isBooted

AddPending(key, stateConfig, autoStart) ==
    /\ ~isBooted /\ ~BootThrew
    /\ Len(pending) < MaxPending
    /\ pending' = Append(pending, [index |-> Len(pending), key |-> key,
                                   state |-> stateConfig, autoStart |-> autoStart])
    /\ Commit(World)
    /\ op' = [name |-> "add", key |-> key]
    /\ UNCHANGED isBooted

Add(key, stateConfig, autoStart) ==
    /\ isBooted /\ ~BootThrew
    /\ Len(states) < MaxStates
    /\ Load < MaxActive
    /\ Commit(add(World, key, stateConfig, autoStart))
    /\ op' = [name |-> "add", key |-> key]
    /\ UNCHANGED <<isBooted, pending>>

StartPending(key) ==
    /\ ~isBooted /\ ~BootThrew
    /\ pending' = [i \in 1..Len(pending) |->
                      IF pending[i].key = key
                      THEN [pending[i] EXCEPT !.autoStart = TRUE]
                      ELSE pending[i]]
    /\ Commit(World)
    /\ op' = [name |-> "start", key |-> key]
    /\ UNCHANGED isBooted

Start(key) ==
    /\ isBooted /\ ~BootThrew
    /\ Load < MaxActive
    /\ Commit(start(World, key))
    /\ op' = [name |-> "start", key |-> key]
    /\ UNCHANGED <<isBooted, pending>>

\* The loader of state id emits its completion event.
LoadComplete(id) ==
    /\ ~BootThrew
    /\ id \in 1..Len(states)
    /\ states[id].subs > 0
    /\ LET w == loadCompleteAll(World, StateRef(id), states[id].subs)
       IN  Commit([w EXCEPT !.states[id].subs = 0])
    /\ op' = [name |-> "loadComplete", key |-> states[id].key]
    /\ UNCHANGED <<isBooted, pending>>

\* Faulty variant of pause: the state is looked up and its flag cleared
\* before the active list is searched.
pauseClearsFirst(w, key) ==
    LET state == getState(w, key)
        index == getActiveStateIndex(w, Str(key))
    IN  IF state = Undefined THEN [w EXCEPT !.error = "TypeError"]
        ELSE LET w1 == [w EXCEPT !.states[state.ref].active = FALSE]
             IN  IF index > -1
                 THEN [w1 EXCEPT !.active = sort(splice1(@, index))]
                 ELSE w1

pause(w, key) ==
    LET index == getActiveStateIndex(w, Str(key))
    IN  IF index > -1
        THEN LET state == getState(w, key)
             IN  IF state = Undefined THEN [w EXCEPT !.error = "TypeError"]
                 ELSE [w EXCEPT !.states[state.ref].active = FALSE,
                                !.active = sort(splice1(@, index))]
        ELSE w

Pause(key) ==
    /\ ~BootThrew
    /\ Commit(pause(World, key))
    /\ op' = [name |-> "pause", key |-> key]
    /\ UNCHANGED <<isBooted, pending>>

RECURSIVE step(_, _)
step(w, i) ==
    IF i > Len(w.active) THEN w
    ELSE LET id == w.active[i].state.ref
         IN  step(IF w.states[id].running THEN Call(w, "step", id) ELSE w, i + 1)

Step ==
    /\ ~BootThrew
    /\ Commit(step(World, 1))
    /\ op' = [name |-> "step", key |-> ""]
    /\ UNCHANGED <<isBooted, pending>>

Next ==
    \/ Boot
    \/ BootNotBooted
    \/ \E key \in KeyArgs, stateConfig \in Sources, autoStart \in BOOLEAN :
          AddPending(key, stateConfig, autoStart)
    \/ \E key \in KeyArgs, stateConfig \in Sources, autoStart \in BOOLEAN :
          Add(key, stateConfig, autoStart)
    \/ \E key \in AllKeys : StartPending(key)
    \/ \E key \in AllKeys : Start(key)
    \/ \E id \in 1..MaxStates : LoadComplete(id)
    \/ \E key \in AllKeys : Pause(key)
    \/ Step

Spec == Init /\ [][Next]_vars

(***************************************************************************)
(* Properties                                                              *)
(***************************************************************************)

\* The state registered under a key of the key map.
IdOf(k) == keys[k].ref

\* The number of active records of state id, and whether there is one.
Records(act, id) == Cardinality({i \in 1..Len(act) : act[i].state = StateRef(id)})
InActiveSet(act, id) == \E i \in 1..Len(act) : act[i].state = StateRef(id)

Hooks(cs) == {cs[i].hook : i \in 1..Len(cs)}

\* C1: once booted, add with a resolved key that is already registered throws
\* the duplicate-key error, leaves the key map, the state list and the active
\* list as they were and calls no hook.
C1_DuplicateAddChangesNothing ==
    [][\A key \in KeyArgs, stateConfig \in Sources, autoStart \in BOOLEAN :
          (Add(key, stateConfig, autoStart) /\ resolveKey(key, stateConfig) \in DOMAIN keys)
          => /\ error' = "DuplicateKey"
             /\ keys' = keys
             /\ states' = states
             /\ active' = active
             /\ calls' = << >>]_vars

C1_Witness ==
    /\ isBooted
    /\ op.name = "add"
    /\ error = "DuplicateKey"
    /\ Len(states) > 0
    /\ Len(active) > 0

\* C2: once booted, add(key, source) with a key argument that is not
\* registered succeeds for every source shape, and getState(key) is then the
\* new state, whose key is the key argument.
C2_AddRegistersUnderKeyArgument ==
    [][\A key \in KeyArgs \ {""}, stateConfig \in Sources, autoStart \in BOOLEAN :
          (Add(key, stateConfig, autoStart) /\ key \notin DOMAIN keys)
          => /\ error' = "none"
             /\ Len(states') = Len(states) + 1
             /\ key \in DOMAIN keys'
             /\ keys'[key] = StateRef(Len(states'))
             /\ states'[Len(states')].key = key]_vars

\* C3: start on the key that was just started (state registered, no load
\* outstanding) calls no hook and leaves exactly one active record of the
\* state.
C3_SecondStartIsNoOp ==
    [][\A key \in AllKeys :
          (/\ Start(key)
           /\ op = [name |-> "start", key |-> key]
           /\ key \in DOMAIN keys
           /\ states[IdOf(key)].subs = 0)
          => /\ calls' = << >>
             /\ active' = active
             /\ Records(active', IdOf(key)) = 1]_vars

\* C4: pause on an Active state removes its record from the active list,
\* clears its active flag and makes isActive false; the other records stay.
C4_PauseRemovesActiveState ==
    [][\A key \in AllKeys :
          (/\ Pause(key)
           /\ key \in DOMAIN keys
           /\ states[IdOf(key)].active
           /\ InActiveSet(active, IdOf(key)))
          => /\ ~InActiveSet(active', IdOf(key))
             /\ ~states'[IdOf(key)].active
             /\ ~isActive(World, key)'
             /\ \A id \in 1..Len(states) :
                   id # IdOf(key) => Records(active', id) = Records(active, id)]_vars

\* C5: isActive(key) is true exactly when the key is registered, the state's
\* active flag is set and the state has a record in the active list.
C5_IsActiveExact ==
    \A key \in AllKeys :
        isActive(World, key)
        <=> (/\ key \in DOMAIN keys
             /\ states[IdOf(key)].active
             /\ InActiveSet(active, IdOf(key)))

\* C6: once booted, start on a registered state that has no active record and
\* whose preload is absent or enqueues nothing puts a record of the state
\* in the active list before it returns.
C6_StartWithoutLoadIsSynchronous ==
    [][\A key \in AllKeys :
          (/\ Start(key)
           /\ key \in DOMAIN keys
           /\ ~InActiveSet(active, IdOf(key))
           /\ states[IdOf(key)].preload \in {"absent", "empty"})
          => /\ InActiveSet(active', IdOf(key))
             /\ "create" \in Hooks(calls')
             /\ error' = "none"]_vars

C6_Witness ==
    /\ isBooted
    /\ op.name = "start"
    /\ op.key \in DOMAIN keys
    /\ states[IdOf(op.key)].preload \in {"absent", "empty"}
    /\ Records(active, IdOf(op.key)) = 1
    /\ calls # << >>
    /\ calls[Len(calls)] = [hook |-> "create", state |-> IdOf(op.key)]

\* C7: once booted, start on a state without active record whose preload
\* enqueues a loadable returns with the state out of the active list and
\* create not called; while the load is outstanding every step other than
\* the loader's completion keeps the state out of the active list; the
\* completion puts it in.
C7_LoadingStateAbsentUntilComplete ==
    [][/\ \A key \in AllKeys :
             (/\ Start(key)
              /\ key \in DOMAIN keys
              /\ ~InActiveSet(active, IdOf(key))
              /\ states[IdOf(key)].preload = "queues")
             => /\ ~InActiveSet(active', IdOf(key))
                /\ "create" \notin Hooks(calls')
                /\ states'[IdOf(key)].subs > 0
       /\ \A id \in 1..Len(states) :
             (/\ states[id].subs > 0
              /\ ~InActiveSet(active, id)
              /\ ~LoadComplete(id))
             => ~InActiveSet(active', id)
       /\ \A id \in 1..Len(states) :
             LoadComplete(id) => InActiveSet(active', id)]_vars

C7_Witness ==
    /\ op.name = "loadComplete"
    /\ op.key \in DOMAIN keys
    /\ states[IdOf(op.key)].preload = "queues"
    /\ Records(active, IdOf(op.key)) = 1
    /\ Hooks(calls) = {"create"}

\* The key the caller gave a queue entry: the source's own key, else the key
\* argument of add; "" when the caller gave none (the constructor gives none).
GivenKey(e) ==
    IF e.state.hasKey THEN e.state.key
    ELSE IF e.key = "default" THEN "" ELSE e.key

\* The caller queued distinct states: no two entries were given the same key,
\* and every entry queued by add was given one.
DistinctGivenKeys(queue) ==
    /\ \A i \in 1..Len(queue) : queue[i].key # "default" => GivenKey(queue[i]) # ""
    /\ \A i, j \in 1..Len(queue) :
          (i < j /\ GivenKey(queue[i]) # "") => GivenKey(queue[i]) # GivenKey(queue[j])

\* C8: boot registers every queued state, in queue order, and exactly the
\* states whose queue entry has autoStart set are started by it (Active, or
\* Loading when their preload enqueued a loadable).  Entries whose source
\* asks for settings.active are left out of the "exactly".
C8_BootRegistersAllInOrder ==
    [][(Boot /\ DistinctGivenKeys(pending))
       => /\ error' = "none"
          /\ Len(states') = Len(pending)
          /\ \A i \in 1..Len(pending) :
                /\ i <= Len(states')
                /\ states'[i].key = resolveKey(pending[i].key, pending[i].state)
                /\ pending[i].state.active
                   \/ (pending[i].autoStart
                       <=> (InActiveSet(active', i) \/ states'[i].subs > 0))]_vars

C10_AtMostOneRecordPerState ==
    \A id \in 1..Len(states) : Records(active, id) <= 1

\* A load of state id is outstanding: start subscribed to its loader and the
\* completion has not fired.
Loading(id) == states[id].subs > 0

\* C11 (as stated): a registered state's active flag is set exactly when the
\* state has a record in the active list.
C11_FlagIffInActiveSet ==
    \A id \in 1..Len(states) : states[id].active <=> InActiveSet(active, id)

\* C11 (amended): a registered state's active flag is set exactly when the
\* state has a record in the active list or its load is outstanding.
C11_FlagIffActiveOrLoading ==
    \A id \in 1..Len(states) :
        states[id].active <=> (InActiveSet(active, id) \/ Loading(id))

C11_Witness ==
    \E id, other, idle \in 1..Len(states) :
        /\ states[id].active /\ InActiveSet(active, id) /\ ~Loading(id)
        /\ states[other].active /\ ~InActiveSet(active, other) /\ Loading(other)
        /\ ~states[idle].active /\ ~InActiveSet(active, idle)

StepCalls(cs, id) == {i \in 1..Len(cs) : cs[i] = [hook |-> "step", state |-> id]}

\* C12: step forwards only to states that have a record in the active list
\* and a running driver, and the step that follows pause(key) does not
\* forward to the state registered under key.
C12_StepSkipsPausedState ==
    [][Step
       => /\ \A i \in 1..Len(calls') :
                /\ calls'[i].hook = "step"
                /\ InActiveSet(active, calls'[i].state)
                /\ states[calls'[i].state].running
          /\ (op.name = "pause" /\ op.key \in DOMAIN keys)
                => StepCalls(calls', IdOf(op.key)) = {}]_vars

C14_PauseOfInactiveIsNoOp ==
    [][\A key \in AllKeys :
          (Pause(key) /\ key \in DOMAIN keys /\ ~InActiveSet(active, IdOf(key)))
          => /\ error' = "none"
             /\ calls' = << >>
             /\ keys' = keys
             /\ states' = states
             /\ active' = active]_vars

C14_Witness ==
    /\ isBooted
    /\ op.name = "pause"
    /\ op.key \in DOMAIN keys
    /\ ~InActiveSet(active, IdOf(op.key))
    /\ Len(active) > 0
    /\ \E id \in 1..Len(states) : states[id].active

\* C15: while the game is not booted, add appends one entry {index = the
\* queue's length before the call, key, source, autoStart} to _pending and
\* does nothing else: no duplicate-key check, no hook, and the key map, the
\* state list and the active list stay as they were.
C15_AddBeforeBootOnlyQueues ==
    [][(~isBooted /\ op'.name = "add")
       => /\ Len(pending') = Len(pending) + 1
          /\ SubSeq(pending', 1, Len(pending)) = pending
          /\ pending'[Len(pending')].index = Len(pending)
          /\ pending'[Len(pending')].key = op'.key
          /\ pending'[Len(pending')].state \in Sources
          /\ pending'[Len(pending')].autoStart \in BOOLEAN
          /\ error' = "none"
          /\ calls' = << >>
          /\ keys' = keys /\ states' = states /\ active' = active
          /\ isBooted' = isBooted]_vars

\* Two queued entries that resolve to the same key: no check was made.
C15_Witness ==
    /\ ~isBooted
    /\ op.name = "add"
    /\ Len(pending) = 2
    /\ pending[2].key = op.key
    /\ resolveKey(pending[1].key, pending[1].state) = resolveKey(pending[2].key, pending[2].state)
    /\ states = << >>

\* C16: start(key) before boot sets autoStart on the queue entry whose state
\* will be registered under key (the queue holding distinct states).
C16_DeferredStartMarksEntry ==
    [][\A key \in AllKeys :
          (StartPending(key) /\ DistinctGivenKeys(pending))
          => \A i \in 1..Len(pending) :
                resolveKey(pending[i].key, pending[i].state) = key
                => pending'[i].autoStart]_vars

\* C17: boot returns without exception, leaves _pending empty and has
\* registered one state for each queue entry, in queue order.
C17_BootDrainsQueue ==
    [][op'.name = "boot"
       => /\ error' = "none"
          /\ pending' = << >>
          /\ Len(states') = Len(pending)
          /\ \A i \in 1..Len(pending) :
                /\ i <= Len(states')
                /\ states'[i].key = resolveKey(pending[i].key, pending[i].state)]_vars

\* C18: once booted, an add that registers a state runs start for it exactly
\* when autoStart is true or the source's settings.active is true; otherwise
\* the state is registered, no hook is called and the state has no record in
\* the active list.
C18_AddStartsIffAutoStartOrActive ==
    [][\A key \in KeyArgs, stateConfig \in Sources, autoStart \in BOOLEAN :
          (Add(key, stateConfig, autoStart) /\ error' = "none")
          => LET id == Len(states')
                 k == resolveKey(key, stateConfig)
             IN  /\ id = Len(states) + 1
                 /\ keys'[k] = StateRef(id)
                 /\ IF autoStart \/ stateConfig.active
                    THEN /\ calls' # << >>
                         /\ calls'[1] = [hook |-> "init", state |-> id]
                         /\ states'[id].active
                         /\ InActiveSet(active', id) \/ states'[id].subs > 0
                    ELSE /\ calls' = << >>
                         /\ ~states'[id].active
                         /\ ~InActiveSet(active', id)
                         /\ states'[id].subs = 0
                         /\ active' = active]_vars

\* A source that asks for settings.active was added and started.
C18_Witness ==
    /\ isBooted
    /\ op.name = "add"
    /\ error = "none"
    /\ Len(states) >= 2
    /\ Len(calls) = 3
    /\ calls[1] = [hook |-> "init", state |-> Len(states)]
    /\ \E id \in 1..(Len(states) - 1) : ~states[id].active /\ ~InActiveSet(active, id)

\* The hooks start calls for state id up to the point where it returns.
StartCalls(id) ==
    IF states[id].preload = "absent"
    THEN <<[hook |-> "init", state |-> id]>>
    ELSE <<[hook |-> "init", state |-> id], [hook |-> "preload", state |-> id]>>

CreateCalls(id, n) == [i \in 1..n |-> [hook |-> "create", state |-> id]]

\* C19: start on a registered state without active record sets the active
\* flag and calls init, then preload (when the state has one), each once;
\* create is called once for each start, by start itself when nothing was
\* enqueued and by the loader's completion otherwise; the record is
\* inserted together with the create call, its index is the state's position
\* in the state list, the list is sorted and the main loop runs.
C19_LifecycleOrder ==
    [][/\ \A key \in AllKeys :
             (Start(key) /\ key \in DOMAIN keys /\ ~InActiveSet(active, IdOf(key)))
             => LET id == IdOf(key)
                IN  /\ states'[id].active
                    /\ IF states[id].preload = "queues"
                       THEN /\ calls' = StartCalls(id)
                            /\ states'[id].subs = states[id].subs + 1
                            /\ active' = active
                       ELSE /\ calls' = StartCalls(id) \o CreateCalls(id, 1)
                            /\ Records(active', id) = 1
                            /\ states'[id].running
       /\ \A id \in 1..Len(states) :
             LoadComplete(id)
             => /\ calls' = CreateCalls(id, states[id].subs)
                /\ Records(active', id) = Records(active, id) + states[id].subs
                /\ states'[id].running
       /\ \A id \in 1..Len(states') :
             Records(active', id) > (IF id <= Len(states) THEN Records(active, id) ELSE 0)
             => [hook |-> "create", state |-> id] \in {calls'[i] : i \in 1..Len(calls')}
       /\ \A i \in 1..Len(active') :
             /\ active'[i].index = active'[i].state.ref - 1
             /\ i > 1 => active'[i - 1].index <= active'[i].index]_vars

\* A state registered after others went through init, preload, a load and
\* create, and its record stands before the record of a later state.
C19_Witness ==
    /\ op.name = "loadComplete"
    /\ Len(active) >= 2
    /\ active[1].state = StateRef(IdOf(op.key))
    /\ calls = CreateCalls(IdOf(op.key), 1)
    /\ states[IdOf(op.key)].running

\* C20: a state never has more than one completion subscription outstanding.
C20_OneSubscriptionPerState ==
    \A id \in 1..Len(states) : states[id].subs <= 1

====
